---- MODULE Spec2Model ----
(***************************************************************************)
(* Model of the FFI utilities (src/zeroconf/src/ffi/mod.rs) and of the     *)
(* Avahi poll wrapper (src/zeroconf/src/linux/poll.rs) of zeroconf-rs.     *)
(*                                                                         *)
(* The native libraries (avahi, libc / winsock select) are black boxes:    *)
(* what they return is a nondeterministic choice, what the wrappers pass   *)
(* to them and make of their results is translated from the source.        *)
(***************************************************************************)
EXTENDS Integers, Sequences, FiniteSets, TLC

(***************************************************************************)
(* Bounds of the model.                                                    *)
(***************************************************************************)
\* number of wrapper values (ManagedAvahiSimplePoll) a run may construct
MaxPolls == 2
\* number of distinct addresses the native allocator may hand out
MaxHandles == 2
\* number of calls of the raw-pointer helpers a run may make
MaxFfiCalls == 2
\* number of objects a raw pointer may point to
MaxObjects == 2
\* number of calls of read_select a run may make
MaxSelectCalls == 2
\* the largest socket descriptor
MaxFd == 2
\* capacity of fd_array. winsock's FD_SETSIZE is 64; the model scales it down
\* so that a run can fill the set
FD_SETSIZE == 3

\* the null pointer
NULL == 0
\* non-null addresses of native AvahiSimplePoll objects
Handles == 1..MaxHandles
\* every *mut AvahiSimplePoll value
Ptrs == {NULL} \cup Handles
\* identities of the wrapper values
Polls == 1..MaxPolls
\* sleep_time arguments of iterate(): a bounded wait in ms, or -1 to block
SleepTimes == {-1, 7}
\* what avahi_simple_poll_iterate / avahi_simple_poll_loop may report:
\* negative = failure, 0 = success, positive = quit was requested
NativeStatuses == {-1, 0, 1}

\* Result<T>: Ok(val) or Err(msg)
Ok(v) == [ok |-> TRUE, val |-> v, msg |-> <<>>]
Err(m) == [ok |-> FALSE, val |-> NULL, msg |-> m]
\* no call has returned yet
Pending == [ok |-> FALSE, val |-> NULL, msg |-> <<"<pending>">>]

VARIABLES
    \* ---- linux/poll.rs ----
    polls,        \* polls[w] = [st, h]: the wrapper value w and the pointer it holds (self.0)
    pc,           \* pc[w]: "idle", or "in_loop" while start_loop() is inside avahi_simple_poll_loop
    nativeLive,   \* addresses of the AvahiSimplePoll objects that are allocated and not freed
    allocCount,   \* allocCount[h]: times avahi_simple_poll_new returned the address h
    freeCount,    \* freeCount[p]: times avahi_simple_poll_free was called with p
    badFree,      \* avahi_simple_poll_free was called with a pointer that is not a live object
    lastNew,      \* the last call of new(): what the allocator returned, what new() returned
    lastIter,     \* the last call of iterate(): wrapper, argument, native calls, native result
    lastLoop,     \* the last return of start_loop(): wrapper, native status, result
    \* ---- ffi/mod.rs ----
    ffiLog,       \* the calls of from_raw, clone_raw, unwrap_or_null, unwrap_mut_or_null so far
    selLog,       \* the calls of read_select so far
    fdset,        \* a winsock fd_set: [fd_count, fd_array]
    fdPanic,      \* an index of fd_array was out of bounds: the thread panicked
    lastFdCall    \* the last FD_ZERO / FD_SET call: its argument and the set before it

pollVars == <<polls, pc, nativeLive, allocCount, freeCount, badFree, lastNew,
              lastIter, lastLoop>>

ffiVars == <<ffiLog>>

selVars == <<selLog>>

fdVars == <<fdset, fdPanic, lastFdCall>>

vars == <<pollVars, ffiVars, selVars, fdVars>>

NoIter == [w |-> 0, sleep_time |-> 0, ncalls |-> 0, nh |-> NULL, nsleep |-> 0, r |-> 0,
           afterFailure |-> FALSE]
NoNew == [called |-> FALSE, native |-> NULL, ret |-> Pending, w |-> 0]
NoLoop == [w |-> 0, status |-> 0, ret |-> Pending]

\* pub struct ManagedAvahiSimplePoll(pub(super) *mut AvahiSimplePoll)
ManagedAvahiSimplePoll(p) == [st |-> "live", h |-> p]

Unborn == [st |-> "unborn", h |-> NULL]

\* the wrapper values that exist and have not been dropped
LivePolls == {w \in Polls : polls[w].st = "live"}

\* the next wrapper identity to be constructed
FreshPoll == CHOOSE w \in Polls : polls[w].st = "unborn" /\ \A v \in Polls : v < w => polls[v].st # "unborn"

InitPoll ==
    /\ polls = [w \in Polls |-> Unborn]
    /\ pc = [w \in Polls |-> "idle"]
    /\ nativeLive = {}
    /\ allocCount = [h \in Handles |-> 0]
    /\ freeCount = [p \in Ptrs |-> 0]
    /\ badFree = FALSE
    /\ lastNew = NoNew
    /\ lastIter = NoIter
    /\ lastLoop = NoLoop

(***************************************************************************)
(* The native allocator: avahi_simple_poll_new() returns null, or the      *)
(* address of a new object, which is no address of a live object.          *)
(***************************************************************************)
avahi_simple_poll_new == {NULL} \cup (Handles \ nativeLive)

\* avahi_simple_poll_free(p)
avahi_simple_poll_free(p) ==
    /\ freeCount' = [freeCount EXCEPT ![p] = @ + 1]
    /\ nativeLive' = nativeLive \ {p}
    /\ badFree' = (badFree \/ p \notin nativeLive)

\* new() without the is_null() check
new_result_unchecked(poll) == Ok(poll)

\* ManagedAvahiSimplePoll::new(), given what avahi_simple_poll_new() returned
new_result(poll) ==
    IF poll = NULL
    THEN Err(<<"could not initialize AvahiSimplePoll">>)
    ELSE Ok(poll)

\* ManagedAvahiSimplePoll::new()
new ==
    /\ \E w \in Polls : polls[w].st = "unborn"
    /\ \E poll \in avahi_simple_poll_new :
        LET ret == new_result(poll) IN
        /\ allocCount' = IF poll = NULL THEN allocCount ELSE [allocCount EXCEPT ![poll] = @ + 1]
        /\ nativeLive' = IF poll = NULL THEN nativeLive ELSE nativeLive \cup {poll}
        /\ polls' = IF ret.ok
                    THEN [polls EXCEPT ![FreshPoll] = ManagedAvahiSimplePoll(ret.val)]
                    ELSE polls
        /\ lastNew' = [called |-> TRUE, native |-> poll, ret |-> ret,
                       w |-> IF ret.ok THEN FreshPoll ELSE 0]
    /\ UNCHANGED <<pc, freeCount, badFree, lastIter, lastLoop,
                   ffiVars, selVars, fdVars>>

\* a method taking &self can be called on w: the value exists, and its owner
\* is not inside another call on it
Callable(w) == polls[w].st = "live" /\ pc[w] = "idle"

\* iterate() that polls without waiting, whatever sleep_time is
iterate_zero_sleep(w, sleep_time) ==
    /\ Callable(w)
    /\ \E r \in NativeStatuses :
        lastIter' = [w |-> w, sleep_time |-> sleep_time, ncalls |-> 1,
                     nh |-> polls[w].h, nsleep |-> 0, r |-> r,
                     afterFailure |-> (lastIter.w = w /\ lastIter.r < 0)]
    /\ UNCHANGED <<polls, pc, nativeLive, allocCount, freeCount, badFree, lastNew, lastLoop,
                   ffiVars, selVars, fdVars>>

\* ManagedAvahiSimplePoll::iterate(&self, sleep_time)
iterate(w, sleep_time) ==
    /\ Callable(w)
    /\ \E r \in NativeStatuses :
        \* one call avahi_simple_poll_iterate(self.0, sleep_time); its result r is
        \* discarded. afterFailure: the iteration before, on this wrapper, failed
        lastIter' = [w |-> w, sleep_time |-> sleep_time, ncalls |-> 1,
                     nh |-> polls[w].h, nsleep |-> sleep_time, r |-> r,
                     afterFailure |-> (lastIter.w = w /\ lastIter.r < 0)]
    /\ UNCHANGED <<polls, pc, nativeLive, allocCount, freeCount, badFree, lastNew, lastLoop,
                   ffiVars, selVars, fdVars>>

\* avahi_util::get_error(err): the text avahi_strerror() gives for err
get_error(err) ==
    CASE err = 0 -> "OK"
      [] err = -1 -> "Operation failed"
      [] OTHER -> "Invalid Error Code"

\* start_loop() that takes only a negative status for a failure
start_loop_result_negative(err) ==
    IF err < 0
    THEN Err(<<"could not start AvahiSimplePoll: ", get_error(err)>>)
    ELSE Ok(NULL)

\* ManagedAvahiSimplePoll::start_loop(), given what avahi_simple_poll_loop() returned
start_loop_result(err) ==
    IF err # 0
    THEN Err(<<"could not start AvahiSimplePoll: ", get_error(err)>>)
    ELSE Ok(NULL)

\* ManagedAvahiSimplePoll::start_loop(&self): the call enters avahi_simple_poll_loop(self.0)
start_loop_call(w) ==
    /\ Callable(w)
    /\ pc' = [pc EXCEPT ![w] = "in_loop"]
    /\ UNCHANGED <<polls, nativeLive, allocCount, freeCount, badFree, lastNew, lastIter, lastLoop,
                   ffiVars, selVars, fdVars>>

\* ManagedAvahiSimplePoll::start_loop(&self): avahi_simple_poll_loop returns err,
\* and start_loop returns
start_loop_return(w, err) ==
    /\ polls[w].st = "live"
    /\ pc[w] = "in_loop"
    /\ pc' = [pc EXCEPT ![w] = "idle"]
    /\ lastLoop' = [w |-> w, status |-> err, ret |-> start_loop_result(err)]
    /\ UNCHANGED <<polls, nativeLive, allocCount, freeCount, badFree, lastNew, lastIter,
                   ffiVars, selVars, fdVars>>

\* a wrapper without its Drop implementation: the poll is never freed
drop_leak(w) ==
    /\ Callable(w)
    /\ polls' = [polls EXCEPT ![w].st = "dropped"]
    /\ UNCHANGED <<pc, nativeLive, allocCount, freeCount, badFree, lastNew, lastIter, lastLoop,
                   ffiVars, selVars, fdVars>>

\* impl Drop for ManagedAvahiSimplePoll: drop(&mut self)
drop(w) ==
    /\ Callable(w)
    /\ avahi_simple_poll_free(polls[w].h)
    /\ polls' = [polls EXCEPT ![w].st = "dropped"]
    /\ UNCHANGED <<pc, allocCount, lastNew, lastIter, lastLoop,
                   ffiVars, selVars, fdVars>>


\* the tuple constructor ManagedAvahiSimplePoll(p): the field is pub(super), so
\* the modules of linux can wrap any pointer
construct(p) ==
    /\ \E w \in Polls : polls[w].st = "unborn"
    /\ polls' = [polls EXCEPT ![FreshPoll] = ManagedAvahiSimplePoll(p)]
    /\ UNCHANGED <<pc, nativeLive, allocCount, freeCount, badFree, lastNew, lastIter, lastLoop,
                   ffiVars, selVars, fdVars>>

(***************************************************************************)
(* ffi/mod.rs: raw pointer helpers                                         *)
(***************************************************************************)
\* addresses of the objects a *mut c_void may point to
Objects == 1..MaxObjects
RawPtrs == {NULL} \cup Objects
\* the value of the T stored at address a
ObjectAt(a) == 100 + a

\* Option<*const T>, Option<*mut T>
None == [some |-> FALSE, ptr |-> NULL]
Some(p) == [some |-> TRUE, ptr |-> p]
Options == {None} \cup {Some(p) : p \in RawPtrs}

\* how a call ended, the pointers it dereferenced (in order), what it returned;
\* fallback: the returned pointer is the one the or-else closure made
Panicked == [outcome |-> "panic", derefs |-> <<>>, ret |-> NULL, fallback |-> FALSE]
Returned(d, r, f) == [outcome |-> "return", derefs |-> d, ret |-> r, fallback |-> f]

\* assert_not_null!(raw) passes
assert_not_null(raw) == raw # NULL

\* from_raw() without its assertion
from_raw_unchecked(raw) == Returned(<<raw>>, raw, FALSE)

\* FromRaw::from_raw(raw): &mut *(raw as *mut T)
from_raw(raw) ==
    IF ~assert_not_null(raw)
    THEN Panicked
    ELSE Returned(<<raw>>, raw, FALSE)

\* CloneRaw::clone_raw(raw): Box::new(T::from_raw(raw).clone())
clone_raw(raw) ==
    IF ~assert_not_null(raw)
    THEN Panicked
    ELSE LET r == from_raw(raw) IN
         IF r.outcome = "panic"
         THEN r
         ELSE Returned(r.derefs, ObjectAt(r.ret), FALSE)

\* Option<*const T>::unwrap_or_null(): self.unwrap_or_else(|| ptr::null())
unwrap_or_null(opt) ==
    IF opt.some
    THEN Returned(<<>>, opt.ptr, FALSE)
    ELSE Returned(<<>>, NULL, TRUE)

\* Option<*mut T>::unwrap_mut_or_null(): self.unwrap_or_else(|| ptr::null_mut())
unwrap_mut_or_null(opt) ==
    IF opt.some
    THEN Returned(<<>>, opt.ptr, FALSE)
    ELSE Returned(<<>>, NULL, TRUE)

InitFfi == ffiLog = <<>>

\* a panic unwinds the calling thread: it makes no further call
FfiRunning == Len(ffiLog) < MaxFfiCalls /\ \A i \in 1..Len(ffiLog) : ffiLog[i].res.outcome # "panic"

FfiCall(op, opt, res) == [op |-> op, arg |-> opt, res |-> res]

call_from_raw(raw) ==
    /\ FfiRunning
    /\ ffiLog' = Append(ffiLog, FfiCall("from_raw", Some(raw), from_raw(raw)))
    /\ UNCHANGED <<pollVars, selVars, fdVars>>

call_clone_raw(raw) ==
    /\ FfiRunning
    /\ ffiLog' = Append(ffiLog, FfiCall("clone_raw", Some(raw), clone_raw(raw)))
    /\ UNCHANGED <<pollVars, selVars, fdVars>>

call_unwrap_or_null(opt) ==
    /\ FfiRunning
    /\ ffiLog' = Append(ffiLog, FfiCall("unwrap_or_null", opt, unwrap_or_null(opt)))
    /\ UNCHANGED <<pollVars, selVars, fdVars>>

call_unwrap_mut_or_null(opt) ==
    /\ FfiRunning
    /\ ffiLog' = Append(ffiLog, FfiCall("unwrap_mut_or_null", opt, unwrap_mut_or_null(opt)))
    /\ UNCHANGED <<pollVars, selVars, fdVars>>

NextFfi ==
    \/ \E raw \in RawPtrs : call_from_raw(raw)
    \/ \E raw \in RawPtrs : call_clone_raw(raw)
    \/ \E opt \in Options : call_unwrap_or_null(opt)
    \/ \E opt \in Options : call_unwrap_mut_or_null(opt)

(***************************************************************************)
(* ffi/mod.rs, mod windows: FD_SET and FD_ZERO, and the winsock macros     *)
(* quoted in the comment above them                                        *)
(***************************************************************************)
\* socket descriptors
Fds == 0..MaxFd
FdIndexes == 0..(FD_SETSIZE - 1)

\* mem::zeroed::<fd_set>()
zeroed == [fd_count |-> 0, fd_array |-> [i \in FdIndexes |-> 0]]

\* the sockets a winsock fd_set holds
Members(set) == {set.fd_array[i] : i \in {j \in FdIndexes : j < set.fd_count}}

\* #define FD_ZERO(set) (((fd_set FAR *)(set))->fd_count=0)
FD_ZERO_macro(set) == [set EXCEPT !.fd_count = 0]

RECURSIVE FD_SET_macro_scan(_, _, _)
\* the for loop of the macro FD_SET, from index i: the value of i after it
FD_SET_macro_scan(i, fd, set) ==
    IF i < set.fd_count
    THEN IF set.fd_array[i] = fd
         THEN i
         ELSE FD_SET_macro_scan(i + 1, fd, set)
    ELSE i

\* #define FD_SET(fd, set)
FD_SET_macro(fd, set) ==
    LET i == FD_SET_macro_scan(0, fd, set) IN
    IF i = set.fd_count
    THEN IF set.fd_count < FD_SETSIZE
         THEN [fd_count |-> set.fd_count + 1, fd_array |-> [set.fd_array EXCEPT ![i] = fd]]
         ELSE set
    ELSE set

\* fn FD_ZERO(set: &mut winsock::fd_set)
FD_ZERO(set) == [set EXCEPT !.fd_count = 0]

RECURSIVE FD_SET_scan(_, _, _, _)
\* the while loop of fn FD_SET, from index i, having read the indexes in reads:
\* the value of i after it, the indexes read, and whether an index was out of bounds
FD_SET_scan(i, fd, set, reads) ==
    IF i < set.fd_count
    THEN LET j == i + 1 IN
         IF j \notin FdIndexes
         THEN [i |-> j, reads |-> Append(reads, j), panic |-> TRUE]
         ELSE IF set.fd_array[j] = fd
              THEN [i |-> j, reads |-> Append(reads, j), panic |-> FALSE]
              ELSE FD_SET_scan(j, fd, set, Append(reads, j))
    ELSE [i |-> i, reads |-> reads, panic |-> FALSE]

\* fn FD_SET(fd: i32, set: &mut winsock::fd_set)
FD_SET(fd, set) ==
    LET s == FD_SET_scan(0, fd, set, <<>>) IN
    IF s.panic
    THEN [set |-> set, reads |-> s.reads, panic |-> TRUE]
    ELSE IF s.i = set.fd_count /\ set.fd_count < FD_SETSIZE
         THEN [set |-> [fd_count |-> set.fd_count + 1,
                        fd_array |-> [set.fd_array EXCEPT ![s.i] = fd]],
               reads |-> s.reads, panic |-> FALSE]
         ELSE [set |-> set, reads |-> s.reads, panic |-> FALSE]

NoFdCall == [op |-> "none", fd |-> 0, before |-> zeroed, reads |-> <<>>]

InitFd ==
    /\ fdset = zeroed
    /\ fdPanic = FALSE
    /\ lastFdCall = NoFdCall

\* FD_ZERO(&mut set)
fd_zero ==
    /\ ~fdPanic
    /\ fdset' = FD_ZERO(fdset)
    /\ lastFdCall' = [op |-> "FD_ZERO", fd |-> 0, before |-> fdset, reads |-> <<>>]
    /\ UNCHANGED <<fdPanic, pollVars, ffiVars, selVars>>

\* FD_SET(fd, &mut set)
fd_set(fd) ==
    /\ ~fdPanic
    /\ LET r == FD_SET(fd, fdset) IN
        /\ fdset' = r.set
        /\ fdPanic' = r.panic
        /\ lastFdCall' = [op |-> "FD_SET", fd |-> fd, before |-> fdset, reads |-> r.reads]
    /\ UNCHANGED <<pollVars, ffiVars, selVars>>

NextFd ==
    \/ fd_zero
    \/ \E fd \in Fds : fd_set(fd)

(***************************************************************************)
(* ffi/mod.rs, mod macos and mod windows: read_select                      *)
(***************************************************************************)
\* std::time::Duration values: whole seconds and the nanoseconds beyond them
Durations == {[secs |-> 0, nanos |-> 0], [secs |-> 1, nanos |-> 500000999]}
\* what select() may return for one watched socket
SelectResults == {-1, 0, 1}
\* error codes of the operating system (EINTR, EBADF); 0: no error
OsErrors == {4, 9}

\* timeval { tv_sec: timeout.as_secs(), tv_usec: timeout.subsec_micros() }
timeval(timeout) == [tv_sec |-> timeout.secs, tv_usec |-> timeout.nanos \div 1000]

\* read_select that takes a result of 0 for an error too
read_select_result_nonpositive(result) ==
    IF result <= 0
    THEN Err(<<"select(): returned error status">>)
    ELSE Ok(result)

\* read_select, given what select() returned. In the Ok branch result >= 0, so
\* the cast `result as u32` keeps its value
read_select_result(result) ==
    IF result < 0
    THEN Err(<<"select(): returned error status">>)
    ELSE Ok(result)

\* libc: FD_ZERO(&mut read_flags); FD_SET(sock_fd, &mut read_flags)
macos_read_flags(sock_fd) == {sock_fd}

\* windows: FD_ZERO(&mut read_flags); FD_SET(sock_fd, &mut read_flags)
windows_read_flags(sock_fd) == Members(FD_SET(sock_fd, FD_ZERO(zeroed)).set)

SelCall(platform, sock_fd, read_flags, timeout, result, errno) ==
    [platform |-> platform, sock_fd |-> sock_fd, nfds |-> sock_fd + 1,
     read_flags |-> read_flags, timeout |-> timeval(timeout),
     result |-> result, errno |-> errno, ret |-> read_select_result(result)]

\* the platform is chosen when the crate is built
SelPlatform(platform) ==
    /\ Len(selLog) < MaxSelectCalls
    /\ \A i \in 1..Len(selLog) : selLog[i].platform = platform

\* the error code the operating system sets when select() returns result
Errnos(result) == IF result < 0 THEN OsErrors ELSE {0}

\* macos::read_select(sock_fd, timeout)
macos_read_select(sock_fd, timeout) ==
    /\ SelPlatform("macos")
    /\ \E result \in SelectResults : \E errno \in Errnos(result) :
        selLog' = Append(selLog, SelCall("macos", sock_fd, macos_read_flags(sock_fd),
                                         timeout, result, errno))
    /\ UNCHANGED <<pollVars, ffiVars, fdVars>>

\* windows::read_select(sock_fd, timeout)
windows_read_select(sock_fd, timeout) ==
    /\ SelPlatform("windows")
    /\ \E result \in SelectResults : \E errno \in Errnos(result) :
        selLog' = Append(selLog, SelCall("windows", sock_fd, windows_read_flags(sock_fd),
                                         timeout, result, errno))
    /\ UNCHANGED <<pollVars, ffiVars, fdVars>>

InitSel == selLog = <<>>

NextSel ==
    \/ \E sock_fd \in Fds, timeout \in Durations : macos_read_select(sock_fd, timeout)
    \/ \E sock_fd \in Fds, timeout \in Durations : windows_read_select(sock_fd, timeout)

(***************************************************************************)
(* Specifications                                                          *)
(***************************************************************************)
Init == InitPoll /\ InitFfi /\ InitSel /\ InitFd

\* the operations of ManagedAvahiSimplePoll that act on the wrapper w
PollApi(w) ==
    \/ \E t \in SleepTimes : iterate(w, t)
    \/ start_loop_call(w)
    \/ drop(w)

NextPoll ==
    \/ new
    \/ \E w \in Polls, t \in SleepTimes : iterate(w, t)
    \/ \E w \in Polls : start_loop_call(w)
    \/ \E w \in Polls, err \in NativeStatuses : start_loop_return(w, err)
    \/ \E w \in Polls : drop(w)

\* the wrapper is also built from a null pointer directly, within the linux module
NextPollRaw ==
    \/ NextPoll
    \/ construct(NULL)

Next == NextPoll

\* ManagedAvahiSimplePoll, built by new() only
Spec == Init /\ [][Next]_vars

\* ManagedAvahiSimplePoll, built by new() or from a pointer
SpecPollRaw == Init /\ [][NextPollRaw]_vars

\* the raw pointer helpers
SpecFfi == Init /\ [][NextFfi]_vars

\* read_select
SpecSel == Init /\ [][NextSel]_vars

\* FD_ZERO and FD_SET
SpecFd == Init /\ [][NextFd]_vars

(***************************************************************************)
(* Properties                                                              *)
(***************************************************************************)
RECURSIVE SumOver(_, _)
SumOver(f, S) == IF S = {} THEN 0 ELSE LET x == CHOOSE y \in S : TRUE IN f[x] + SumOver(f, S \ {x})

Range(seq) == {seq[i] : i \in 1..Len(seq)}

\* the live wrappers that hold the pointer p
Holders(p) == {w \in LivePolls : polls[w].h = p}

\* C1: every poll the native allocator returned is freed exactly once, when its
\* wrapper is dropped: free is never called with a pointer that is not a live
\* poll, each allocation of an address is either freed or held by exactly one
\* live wrapper, and no two live wrappers hold the same pointer.
C1_FreedExactlyOnce ==
    /\ ~badFree
    /\ \A h \in Handles :
        /\ Cardinality(Holders(h)) <= 1
        /\ allocCount[h] = freeCount[h] + Cardinality(Holders(h))
        /\ (h \in nativeLive) = (Holders(h) # {})

\* an address was freed with its wrapper, and handed out again to a live wrapper
C1_Witness ==
    \E w, v \in Polls :
        /\ polls[w].st = "dropped" /\ polls[v].st = "live"
        /\ polls[w].h = polls[v].h
        /\ allocCount[polls[v].h] = 2 /\ freeCount[polls[v].h] = 1

\* C2: new() returns Err if and only if the allocator returned null; then no
\* wrapper is constructed and free is never called for it; when it returns
\* Ok, the wrapper holds the pointer the allocator returned.
C2_NewErrIffNull ==
    /\ lastNew.called =>
        /\ (~lastNew.ret.ok) = (lastNew.native = NULL)
        /\ ~lastNew.ret.ok => lastNew.w = 0
        /\ lastNew.ret.ok =>
            /\ lastNew.w \in Polls
            /\ polls[lastNew.w].st # "unborn"
            /\ polls[lastNew.w].h = lastNew.native
            /\ lastNew.native # NULL
    /\ Cardinality({w \in Polls : polls[w].st # "unborn"}) = SumOver(allocCount, Handles)
    /\ freeCount[NULL] = 0
    /\ \A w \in Polls : polls[w].st # "unborn" => polls[w].h # NULL

\* the allocator has just failed, after it had succeeded
C2_Witness ==
    /\ lastNew.called /\ lastNew.native = NULL /\ ~lastNew.ret.ok
    /\ LivePolls # {}

\* C3: dropping a wrapper whose pointer is null does not call the native free.
C3_NullDropIsNoOp == freeCount[NULL] = 0

\* C4: a call of iterate(sleep_time) calls avahi_simple_poll_iterate once, with
\* the wrapper's pointer and the caller's sleep_time, and whatever it reports
\* the wrapper is as it was and can be iterated again.
C4_IterateOnce ==
    [][lastIter' # lastIter =>
        /\ lastIter'.ncalls = 1
        /\ lastIter'.nsleep = lastIter'.sleep_time
        /\ lastIter'.nh = polls[lastIter'.w].h
        /\ lastIter'.nh \in nativeLive
        /\ polls' = polls
        /\ nativeLive' = nativeLive
        /\ freeCount' = freeCount
        /\ polls'[lastIter'.w].st = "live" /\ pc'[lastIter'.w] = "idle"]_vars

\* an iteration ran on a wrapper whose iteration before had failed
C4_Witness ==
    /\ lastIter.w \in Polls
    /\ lastIter.afterFailure
    /\ lastIter.ncalls = 1
    /\ lastIter.sleep_time = 7 /\ lastIter.nsleep = 7

\* C5: while start_loop() is blocked on a wrapper, the wrapper offers an
\* operation that makes it return.
C5_InterruptOffered ==
    \A w \in Polls : pc[w] = "in_loop" => ENABLED (PollApi(w) /\ pc'[w] = "idle")

\* C10: start_loop() returns only when the native loop does; when the native
\* loop returns s, it returns Ok if and only if s = 0, and otherwise an error
\* whose message holds the native description of s; it neither frees nor
\* changes the wrapper's poll.
C10_StartLoop ==
    [][/\ \A w \in Polls :
            (pc[w] = "in_loop" \/ pc'[w] = "in_loop") =>
                /\ polls'[w] = polls[w]
                /\ polls[w].h \in nativeLive /\ polls[w].h \in nativeLive'
                /\ freeCount'[polls[w].h] = freeCount[polls[w].h]
                /\ pc'[w] = "in_loop" => (lastLoop' # lastLoop => lastLoop'.w # w)
       /\ (\E w \in Polls : pc[w] = "in_loop" /\ pc'[w] = "idle") =>
            /\ pc[lastLoop'.w] = "in_loop" /\ pc'[lastLoop'.w] = "idle"
            /\ lastLoop'.ret.ok = (lastLoop'.status = 0)
            /\ ~lastLoop'.ret.ok => get_error(lastLoop'.status) \in Range(lastLoop'.ret.msg)
       /\ lastLoop' # lastLoop => (pc[lastLoop'.w] = "in_loop" /\ pc'[lastLoop'.w] = "idle")]_vars

\* the native loop was asked to quit and start_loop returned an error
C10_Witness ==
    /\ lastLoop.w \in Polls
    /\ lastLoop.status = 1 /\ ~lastLoop.ret.ok
    /\ pc[lastLoop.w] = "idle" /\ polls[lastLoop.w].st = "live"

\* C6: read_select returns Err if and only if select() returned a negative
\* result, and otherwise Ok of that result: an error is never Ok(0).
C6_ErrIffNegative ==
    \A i \in 1..Len(selLog) :
        LET c == selLog[i] IN
        /\ (~c.ret.ok) = (c.result < 0)
        /\ c.ret.ok => c.ret.val = c.result
        /\ c.result < 0 => c.ret # Ok(0)
        /\ c.read_flags = {c.sock_fd} /\ c.nfds = c.sock_fd + 1

\* a wait that timed out was followed by one that failed
C6_Witness ==
    /\ Len(selLog) = 2
    /\ selLog[1].result = 0 /\ selLog[1].ret = Ok(0)
    /\ selLog[2].result < 0 /\ ~selLog[2].ret.ok
    /\ selLog[2].platform = "windows"

\* C7: two failures of read_select with different error codes of the
\* operating system return different errors.
C7_ErrorCarriesOsCode ==
    \A i, j \in 1..Len(selLog) :
        (selLog[i].result < 0 /\ selLog[j].result < 0 /\ selLog[i].errno # selLog[j].errno)
            => selLog[i].ret # selLog[j].ret

NoDuplicates(set) ==
    \A i, j \in FdIndexes : (i < j /\ j < set.fd_count) => set.fd_array[i] # set.fd_array[j]

\* C9: FD_SET does what the macro FD_SET does: it reads the indexes below
\* fd_count only and none out of bounds, leaves the set as the macro leaves
\* it, and the entries below fd_count hold no socket twice.
C9_FdSetAsMacro ==
    /\ ~fdPanic
    /\ NoDuplicates(fdset)
    /\ lastFdCall.op = "FD_SET" =>
        /\ fdset = FD_SET_macro(lastFdCall.fd, lastFdCall.before)
        /\ \A k \in Range(lastFdCall.reads) : k < lastFdCall.before.fd_count
    /\ lastFdCall.op = "FD_ZERO" => fdset = FD_ZERO_macro(lastFdCall.before)

====
